---- MODULE Spec2Model ----
(***************************************************************************)
(* One run of jira_releases.py: argument parsing, dispatch to one of the   *)
(* two fetch operations, classification of HTTP and transport failures,    *)
(* and rendering of the fetched list as text or JSON.                      *)
(*                                                                         *)
(* Python values are tagged records: PyNone, Str(s), Bool(b), Dict(r).     *)
(* A dict is a record over all the keys the program reads; the value       *)
(* Absent under a key says the key is not in the dict.  Strings are        *)
(* sequences of character codes so that len(), slicing, padding and the    *)
(* lexicographic order of the sort key are computed, not assumed.          *)
(***************************************************************************)
EXTENDS Integers, Sequences, FiniteSets, TLC

VARIABLES
    pc,             \* where main is: "start", "dispatch", "display_versions", "display_issues", "done"
    args,           \* the namespace of parse_args (line 206)
    calls,          \* the fetch and display functions main has called, in order (lines 209-215)
    requests_made,  \* calls of requests.get (lines 32, 90)
    response,       \* what requests.get came back with: an exception or a status
    raised,         \* the exception the try block of the fetch ended with, "none" if it returned
    result,         \* <<>> or <<the list the fetch returned>> (lines 210, 214)
    out,            \* the lines printed on stdout
    err,            \* an ending outside the handlers: "usage" or "help" of argparse, "traceback"; else "none"
    exit_code       \* <<>> while running, <<status>> once the process has exited

vars == <<pc, args, calls, requests_made, response, raised, result, out, err, exit_code>>

(***************************************************************************)
(* Bounds of the model.                                                    *)
(***************************************************************************)
MaxVersions == 3
MaxIssues == 2
MaxSummaryLen == 72

(***************************************************************************)
(* Python values.                                                          *)
(***************************************************************************)
Absent == [tag |-> "absent"]
PyNone == [tag |-> "None"]
Str(s) == [tag |-> "str", v |-> s]
Bool(b) == [tag |-> "bool", v |-> b]
Dict(r) == [tag |-> "dict", v |-> r]
List(l) == [tag |-> "list", v |-> l]

IsStr(x) == x.tag = "str"
IsDict(x) == x.tag = "dict"

\* truthiness replaced by a test against None
Truthy_IsNotNone(x) == x.tag \notin {"None", "absent"}

\* bool(x) for the values the program tests
Truthy(x) ==
    CASE x.tag = "str" -> x.v # <<>>
      [] x.tag = "bool" -> x.v
      [] x.tag = "dict" -> TRUE
      [] x.tag = "list" -> x.v # <<>>
      [] OTHER -> FALSE

\* d.get(k, default) on the record r of a dict
Get(r, k, default) == IF r[k].tag = "absent" THEN default ELSE r[k]

(***************************************************************************)
(* Strings as sequences of character codes.                                *)
(***************************************************************************)
NA == <<78, 47, 65>>                                   \* "N/A"
Ellipsis == <<46, 46, 46>>                             \* "..."
Yes == <<89, 101, 115>>                                \* "Yes"
No == <<78, 111>>                                      \* "No"
NoneText == <<78, 111, 110, 101>>                      \* str(None)
SentinelDate == <<57, 57, 57, 57, 45, 57, 57, 45, 57, 57>>   \* "9999-99-99"
Date2023 == <<50, 48, 50, 51, 45, 49, 49, 45, 51, 48>>       \* "2023-11-30"
Date2024 == <<50, 48, 50, 52, 45, 48, 50, 45, 48, 49>>       \* "2024-02-01"
DateMax == <<57, 57, 57, 57, 45, 49, 50, 45, 51, 49>>        \* "9999-12-31"

Spaces(n) == [i \in 1..n |-> 32]

\* the str.__lt__ order: lexicographic by character code
RECURSIVE StrLess(_, _)
StrLess(a, b) ==
    IF b = <<>> THEN FALSE
    ELSE IF a = <<>> THEN TRUE
    ELSE IF a[1] < b[1] THEN TRUE
    ELSE IF a[1] > b[1] THEN FALSE
    ELSE StrLess(Tail(a), Tail(b))

\* f"{x:<w}": only a str accepts the format spec; None raises TypeError
CanFormat(x) == IsStr(x)
FormatLeft(x, w) == IF Len(x.v) >= w THEN x.v ELSE x.v \o Spaces(w - Len(x.v))

\* f"{x}" without a format spec: str(x)
FormatPlain(x) == IF IsStr(x) THEN x.v ELSE NoneText

Line(text, arg) == [text |-> text, arg |-> arg]

(***************************************************************************)
(* The inputs of a run: command lines, and what the Jira server and the    *)
(* transport can answer.                                                   *)
(***************************************************************************)
ProjectKey == <<80, 82, 79, 74>>                       \* "PROJ"
ReleaseId == <<49, 48, 48, 48, 49>>                    \* "10001"
SomeText == <<66, 117, 103>>                           \* "Bug"

TextFormat == <<116, 101, 120, 116>>                   \* "text"
JsonFormat == <<106, 115, 111, 110>>                   \* "json"
XmlFormat == <<120, 109, 108>>                         \* "xml", not among the choices

\* sys.argv as argparse sees it: which options are on the command line
Argvs ==
    [help : BOOLEAN,
     required : BOOLEAN,
     format : {Absent, Str(TextFormat), Str(JsonFormat), Str(XmlFormat)},
     release_id : {Absent, Str(<<>>), Str(ReleaseId)},
     list_issues : BOOLEAN]

\* response statuses a server can answer with (redirects that requests
\* follows never reach the caller; 300 and 304 do)
Statuses == {200, 204, 300, 400, 401, 403, 404, 500, 503}

\* what requests.get can raise
TransportExceptions == {"ConnectionError", "SSLError", "ConnectTimeout", "ReadTimeout", "TooManyRedirects"}

\* what response.json() raises on a body that is not JSON: the class of
\* requests >= 2.27, or the plain ValueError of older releases
DecodeErrors == {"JSONDecodeError", "ValueError"}

Version(id, name, released, releaseDate, description) ==
    [id |-> id, name |-> name, released |-> released,
     releaseDate |-> releaseDate, description |-> description]

ReleaseDates == {Absent, PyNone, Str(<<>>), Str(Date2023), Str(Date2024), Str(DateMax)}

VersionPool ==
    {Version(Str(ReleaseId), Str(SomeText), Bool(TRUE), d, Str(SomeText)) : d \in ReleaseDates}
    \cup {Version(PyNone, Str(SomeText), Bool(FALSE), Str(Date2023), PyNone),
          Version(Absent, Absent, Absent, Absent, Absent)}

Named(n) == Dict([name |-> n])

Fields(issuetype, status, priority, summary) ==
    Dict([issuetype |-> issuetype, status |-> status, priority |-> priority, summary |-> summary])

Issue(key, fields) == [key |-> key, fields |-> fields]

Summary(n) == [i \in 1..n |-> 97 + (i % 26)]

SummaryLens == {0, 1} \cup (66..MaxSummaryLen)

IssuePool ==
    {Issue(Str(ProjectKey), Fields(Named(Str(SomeText)), Named(Str(SomeText)), Named(Str(SomeText)), Str(Summary(n)))) :
        n \in SummaryLens}
    \cup {Issue(k, Fields(Named(Str(SomeText)), Named(Str(SomeText)), Named(Str(SomeText)), Str(SomeText))) :
        k \in {Absent, PyNone}}
    \cup {Issue(Str(ProjectKey), f) : f \in {Absent, PyNone}}
    \cup {Issue(Str(ProjectKey), Fields(Named(Str(SomeText)), Named(Str(SomeText)), p, Str(SomeText))) :
        p \in {Absent, PyNone, Named(Absent), Named(PyNone)}}
    \cup {Issue(Str(ProjectKey), Fields(Absent, Absent, Named(Str(SomeText)), s)) :
        s \in {Absent, PyNone}}

ListsOf(pool, n) == UNION {[1..k -> pool] : k \in 0..n}

\* the parsed body of a 2xx answer of each endpoint
VersionBodies == {List(l) : l \in ListsOf(VersionPool, MaxVersions)}
IssueBodies == {[issues |-> Absent]} \cup {[issues |-> List(l)] : l \in ListsOf(IssuePool, MaxIssues)}

Bodies(endpoint) == IF endpoint = "versions" THEN VersionBodies ELSE IssueBodies

\* everything requests.get followed by response.json() can come back with
Outcomes(endpoint) ==
    {[kind |-> "exception", exc |-> e] : e \in TransportExceptions}
    \cup {[kind |-> "response", status |-> s, json |-> "invalid", exc |-> e] :
            s \in Statuses, e \in DecodeErrors}
    \cup {[kind |-> "response", status |-> s, json |-> "valid", body |-> b] :
            s \in Statuses, b \in Bodies(endpoint)}

(***************************************************************************)
(* argparse: parser.parse_args() of main.                                  *)
(***************************************************************************)
FormatChoices == {TextFormat, JsonFormat}

BadChoice(argv) == argv.format.tag = "str" /\ argv.format.v \notin FormatChoices

\* "ok": a namespace comes back; "help": -h printed the help and exited 0;
\* "usage": a missing required argument or an invalid choice, exit 2.
\* Options are handled in command-line order, so with -h and an invalid
\* --format both present either one can come first.
ParseOutcomes(argv) ==
    IF argv.help THEN (IF BadChoice(argv) THEN {"help", "usage"} ELSE {"help"})
    ELSE IF BadChoice(argv) \/ ~argv.required THEN {"usage"}
    ELSE {"ok"}

ParseExitCode(outcome) == IF outcome = "help" THEN 0 ELSE 2

\* the namespace of a successful parse: defaults filled in
Namespace(argv) ==
    [project_key |-> ProjectKey,
     format |-> Get(argv, "format", Str(TextFormat)).v,
     release_id |-> Get(argv, "release_id", PyNone),
     list_issues |-> argv.list_issues]

(***************************************************************************)
(* The two fetch operations.                                               *)
(***************************************************************************)
\* the classes an exception is an instance of (requests.exceptions)
Bases(exc) ==
    CASE exc = "HTTPError" -> {"HTTPError", "RequestException"}
      [] exc = "ConnectionError" -> {"ConnectionError", "RequestException"}
      [] exc = "SSLError" -> {"SSLError", "ConnectionError", "RequestException"}
      [] exc = "ConnectTimeout" -> {"ConnectTimeout", "ConnectionError", "Timeout", "RequestException"}
      [] exc = "ReadTimeout" -> {"ReadTimeout", "Timeout", "RequestException"}
      [] exc = "TooManyRedirects" -> {"TooManyRedirects", "RequestException"}
      [] exc = "JSONDecodeError" -> {"JSONDecodeError", "InvalidJSONError", "RequestException"}
      [] OTHER -> {exc}

\* the except clauses in the order they are written
ExceptClauses == <<"HTTPError", "ConnectionError", "Timeout", "RequestException">>

\* the first clause that matches, or "uncaught"
HandlerFor(exc) ==
    LET hits == {i \in 1..Len(ExceptClauses) : ExceptClauses[i] \in Bases(exc)}
    IN  IF hits = {} THEN "uncaught"
        ELSE ExceptClauses[CHOOSE i \in hits : \A j \in hits : i <= j]

\* only server errors raise
RaiseForStatus_ServerOnly(status) == 500 <= status /\ status < 600

\* response.raise_for_status(): raises for 4XX and 5XX
RaiseForStatus(status) == 400 <= status /\ status < 600

AuthFailedMsg == "Authentication failed. Please check your username and API token."
ForbiddenMsg == "You don't have permission to access this resource."
NotFoundMsg == "Project '{project_key}' not found."
BadRequestMsg == "Bad request: Invalid JQL query or parameters."
HttpErrorMsg == "HTTP Error: {e}"
ConnectionMsg == "Connection Error: Failed to connect to the Jira server."
TimeoutMsg == "Timeout Error: The request timed out."
GenericMsg == "Error: {e}"

\* the if/elif chain on response.status_code of each endpoint
StatusLines(endpoint, status, project_key) ==
    IF status = 401 THEN <<Line(AuthFailedMsg, <<>>)>>
    ELSE IF status = 403 THEN <<Line(ForbiddenMsg, <<>>)>>
    ELSE IF endpoint = "versions" /\ status = 404 THEN <<Line(NotFoundMsg, <<project_key>>)>>
    ELSE IF endpoint = "issues" /\ status = 400 THEN <<Line(BadRequestMsg, <<>>)>>
    ELSE <<>>

\* what the handler of an exception prints
HandlerLines(endpoint, handler, exc, status, project_key) ==
    CASE handler = "HTTPError" ->
            <<Line(HttpErrorMsg, <<status>>)>> \o StatusLines(endpoint, status, project_key)
      [] handler = "ConnectionError" -> <<Line(ConnectionMsg, <<>>)>>
      [] handler = "Timeout" -> <<Line(TimeoutMsg, <<>>)>>
      [] handler = "RequestException" -> <<Line(GenericMsg, <<exc>>)>>
      [] OTHER -> <<>>

\* the exception the try block ends with, "none" when it returns
RaisedBy(o) ==
    IF o.kind = "exception" THEN o.exc
    ELSE IF RaiseForStatus(o.status) THEN "HTTPError"
    ELSE IF o.json = "invalid" THEN o.exc
    ELSE "none"

\* the value the try block returns
Returned(endpoint, o) ==
    IF endpoint = "versions" THEN o.body ELSE Get(o.body, "issues", List(<<>>))

\* the handler exits with status 0
SysExit_Zero(code) == [pc |-> "done", exit_code |-> <<0>>]

\* the handler goes round again instead of exiting
SysExit_Retry(code) == [pc |-> "dispatch", exit_code |-> <<>>]

\* the handler prints and returns to main instead of exiting
SysExit_Return(code) == [pc |-> "display_versions", exit_code |-> <<>>]

\* sys.exit(code): SystemExit is caught nowhere, the run ends
SysExit(code) == [pc |-> "done", exit_code |-> <<code>>]

\* what is left of the answer in the run's state
Seen(o) ==
    IF o.kind = "exception" THEN [kind |-> "exception", status |-> 0]
    ELSE [kind |-> "response", status |-> o.status]

Fetch(endpoint, o) ==
    LET exc == RaisedBy(o)
        handler == HandlerFor(exc)
        status == IF o.kind = "response" THEN o.status ELSE 0
    IN  /\ requests_made' = requests_made + 1
        /\ response' = Seen(o)
        /\ raised' = exc
        /\ IF exc = "none"
           THEN /\ result' = <<Returned(endpoint, o)>>
                /\ pc' = IF endpoint = "versions" THEN "display_versions" ELSE "display_issues"
                /\ UNCHANGED <<out, err, exit_code>>
           ELSE IF handler = "uncaught"
           THEN \* no clause matches: the interpreter prints the traceback, status 1
                /\ err' = "traceback"
                /\ pc' = "done"
                /\ exit_code' = <<1>>
                /\ UNCHANGED <<out, result>>
           ELSE /\ out' = out \o HandlerLines(endpoint, handler, exc, status, args.project_key)
                /\ pc' = SysExit(1).pc
                /\ exit_code' = SysExit(1).exit_code
                /\ UNCHANGED <<err, result>>

(***************************************************************************)
(* The two renderers.  A row is either printed or raises (AttributeError   *)
(* of None.get, TypeError of len(None) or of formatting None with a width);*)
(* the rows before the first one that raises are already on stdout.        *)
(***************************************************************************)
SummaryMax == 70
SummaryKeep == 67

NoIssuesMsg == "No issues found for this release."
NoReleasesMsg == "No releases found for this project."

\* the cut keeps as many characters as the limit
Truncate_KeepMax(summary) ==
    IF Len(summary) > 70 THEN SubSeq(summary, 1, 70) \o Ellipsis ELSE summary

\* the truncation of display_issues
Truncate(summary) ==
    IF Len(summary) > SummaryMax THEN SubSeq(summary, 1, SummaryKeep) \o Ellipsis ELSE summary

EmptyFields == [issuetype |-> Absent, status |-> Absent, priority |-> Absent, summary |-> Absent]
EmptyNamed == [name |-> Absent]

\* issue.get("fields", {}).get(k, {}).get("name", "N/A"): [ok, v]
NameOf(issue, k) ==
    LET f == Get(issue, "fields", Dict(EmptyFields))
    IN  IF ~IsDict(f) THEN [ok |-> FALSE, v |-> PyNone]
        ELSE LET d == Get(f.v, k, Dict(EmptyNamed))
             IN  IF ~IsDict(d) THEN [ok |-> FALSE, v |-> PyNone]
                 ELSE [ok |-> TRUE, v |-> Get(d.v, "name", Str(NA))]

\* issue.get("fields", {}).get("summary", "N/A"): [ok, v]
SummaryOf(issue) ==
    LET f == Get(issue, "fields", Dict(EmptyFields))
    IN  IF ~IsDict(f) THEN [ok |-> FALSE, v |-> PyNone]
        ELSE [ok |-> TRUE, v |-> Get(f.v, "summary", Str(NA))]

\* one pass of the loop of display_issues: [ok, line]
IssueRow(issue) ==
    LET key == Get(issue, "key", Str(NA))
        issue_type == NameOf(issue, "issuetype")
        status == NameOf(issue, "status")
        priority == NameOf(issue, "priority")
        summary == SummaryOf(issue)
        ok == /\ issue_type.ok /\ status.ok /\ priority.ok /\ summary.ok
              /\ IsStr(summary.v)
              /\ CanFormat(key) /\ CanFormat(issue_type.v)
              /\ CanFormat(status.v) /\ CanFormat(priority.v)
    IN  IF ok
        THEN [ok |-> TRUE,
              line |-> Line("issue_row",
                            [key |-> FormatLeft(key, 15),
                             issue_type |-> FormatLeft(issue_type.v, 15),
                             status |-> FormatLeft(status.v, 15),
                             priority |-> FormatLeft(priority.v, 10),
                             summary |-> Truncate(summary.v.v)])]
        ELSE [ok |-> FALSE, line |-> Line("raise", <<>>)]

\* a missing date sorts as the empty string, first
SortKey_MissingFirst(v) ==
    IF Truthy(Get(v, "releaseDate", PyNone)) THEN Get(v, "releaseDate", Str(<<>>)).v ELSE <<>>

\* the sort key of display_versions
SortKey(v) ==
    IF Truthy(Get(v, "releaseDate", PyNone))
    THEN Get(v, "releaseDate", Str(SentinelDate)).v
    ELSE SentinelDate

\* sorted(): stable, by the key, as positions of the input list
RECURSIVE InsertStable(_, _, _)
InsertStable(s, i, versions) ==
    IF s = <<>> THEN <<i>>
    ELSE IF StrLess(SortKey(versions[i]), SortKey(versions[s[1]])) THEN <<i>> \o s
    ELSE <<s[1]>> \o InsertStable(Tail(s), i, versions)

RECURSIVE SortedUpTo(_, _)
SortedUpTo(versions, n) ==
    IF n = 0 THEN <<>> ELSE InsertStable(SortedUpTo(versions, n - 1), n, versions)

Sorted(versions) == SortedUpTo(versions, Len(versions))

\* one pass of the loop of display_versions: [ok, line]; src is the
\* position of the version in the input list
VersionRow(version, src) ==
    LET version_id == Get(version, "id", Str(NA))
        name == Get(version, "name", Str(NA))
        released == IF Truthy(Get(version, "released", Bool(FALSE))) THEN Yes ELSE No
        release_date == Get(version, "releaseDate", Str(NA))
        description == Get(version, "description", Str(<<>>))
        ok == CanFormat(version_id) /\ CanFormat(name) /\ CanFormat(release_date)
    IN  IF ok
        THEN [ok |-> TRUE,
              line |-> Line("version_row",
                            [src |-> src,
                             id |-> FormatLeft(version_id, 10),
                             name |-> FormatLeft(name, 20),
                             released |-> FormatLeft(Str(released), 10),
                             release_date |-> FormatLeft(release_date, 12),
                             description |-> FormatPlain(description)])]
        ELSE [ok |-> FALSE, line |-> Line("raise", <<>>)]

\* the rows a loop prints: all of them, or those before the first raise
Printed(rows) ==
    LET bad == {i \in 1..Len(rows) : ~rows[i].ok}
        n == IF bad = {} THEN Len(rows) ELSE (CHOOSE i \in bad : \A j \in bad : i <= j) - 1
    IN  [ok |-> bad = {}, lines |-> [i \in 1..n |-> rows[i].line]]

Rule(n) == Line("-", <<n>>)

\* display_issues: [ok, lines]
IssuesOutput(issues, output_format) ==
    IF output_format = JsonFormat THEN [ok |-> TRUE, lines |-> <<Line("json", <<issues>>)>>]
    ELSE IF ~Truthy(issues) THEN [ok |-> TRUE, lines |-> <<Line(NoIssuesMsg, <<>>)>>]
    ELSE LET p == Printed([i \in 1..Len(issues.v) |-> IssueRow(issues.v[i])])
         IN  [ok |-> p.ok,
              lines |-> <<Line("Found {n} issues:", <<Len(issues.v)>>), Rule(120),
                          Line("issues_header", <<>>), Rule(120)>> \o p.lines]

\* display_versions: [ok, lines]
VersionsOutput(versions, output_format) ==
    IF output_format = JsonFormat THEN [ok |-> TRUE, lines |-> <<Line("json", <<versions>>)>>]
    ELSE IF ~Truthy(versions) THEN [ok |-> TRUE, lines |-> <<Line(NoReleasesMsg, <<>>)>>]
    ELSE LET sorted_versions == Sorted(versions.v)
             p == Printed([i \in 1..Len(sorted_versions) |->
                             VersionRow(versions.v[sorted_versions[i]], sorted_versions[i])])
         IN  [ok |-> p.ok,
              lines |-> <<Line("Found {n} releases:", <<Len(versions.v)>>), Rule(80),
                          Line("versions_header", <<>>), Rule(80)>> \o p.lines]

(***************************************************************************)
(* The run.                                                                *)
(***************************************************************************)
Unparsed == [project_key |-> <<>>, format |-> TextFormat, release_id |-> PyNone, list_issues |-> FALSE]

Init ==
    /\ pc = "start"
    /\ args = Unparsed
    /\ calls = <<>>
    /\ requests_made = 0
    /\ response = [kind |-> "none", status |-> 0]
    /\ raised = "none"
    /\ result = <<>>
    /\ out = <<>>
    /\ err = "none"
    /\ exit_code = <<>>

\* main up to and including parser.parse_args()
ParseArgs ==
    /\ pc = "start"
    /\ \E argv \in Argvs : \E outcome \in ParseOutcomes(argv) :
          IF outcome = "ok"
          THEN /\ args' = Namespace(argv)
               /\ pc' = "dispatch"
               /\ UNCHANGED <<err, exit_code>>
          ELSE /\ err' = outcome
               /\ pc' = "done"
               /\ exit_code' = <<ParseExitCode(outcome)>>
               /\ UNCHANGED args
    /\ UNCHANGED <<calls, requests_made, response, raised, result, out>>

\* either option alone selects the issues branch
WantsIssues_Either(a) == Truthy(a.release_id) \/ a.list_issues

\* the condition of the if of main
WantsIssues(a) == Truthy(a.release_id) /\ a.list_issues

\* main: the else branch, the call of get_project_versions
GetProjectVersions ==
    /\ pc = "dispatch"
    /\ ~WantsIssues(args)
    /\ calls' = Append(calls, "get_project_versions")
    /\ \E o \in Outcomes("versions") : Fetch("versions", o)
    /\ UNCHANGED args

\* main: the if branch, the call of get_issues_for_version
GetIssuesForVersion ==
    /\ pc = "dispatch"
    /\ WantsIssues(args)
    /\ calls' = Append(calls, "get_issues_for_version")
    /\ \E o \in Outcomes("issues") : Fetch("issues", o)
    /\ UNCHANGED args

\* a renderer returns and main with it (status 0), or raises (traceback, status 1)
Render(name, rendered) ==
    /\ calls' = Append(calls, name)
    /\ out' = out \o rendered.lines
    /\ err' = IF rendered.ok THEN err ELSE "traceback"
    /\ exit_code' = IF rendered.ok THEN <<0>> ELSE <<1>>
    /\ pc' = "done"
    /\ UNCHANGED <<args, requests_made, response, raised, result>>

DisplayVersions ==
    /\ pc = "display_versions"
    /\ Render("display_versions", VersionsOutput(result[1], args.format))

DisplayIssues ==
    /\ pc = "display_issues"
    /\ Render("display_issues", IssuesOutput(result[1], args.format))

Next ==
    \/ ParseArgs
    \/ GetProjectVersions
    \/ GetIssuesForVersion
    \/ DisplayVersions
    \/ DisplayIssues

Spec == Init /\ [][Next]_vars

(***************************************************************************)
(* Vocabulary of the properties, stated on the run's state without the     *)
(* operators above.                                                        *)
(***************************************************************************)
Finished == pc = "done"
ParserEndedRun == err \in {"usage", "help"}
FetchSucceeded == requests_made = 1 /\ raised = "none" /\ result # <<>>
Rendered == Len(calls) = 2 /\ err = "none" /\ Finished
IssuesPath == calls # <<>> /\ calls[1] = "get_issues_for_version"
VersionsPath == calls # <<>> /\ calls[1] = "get_project_versions"
TextRun == args.format = <<116, 101, 120, 116>>
Texts(lines) == [i \in 1..Len(lines) |-> lines[i].text]
RowsOf(lines, kind) == SelectSeq(lines, LAMBDA l : l.text = kind)

(***************************************************************************)
(* C1.  Dispatch.                                                          *)
(***************************************************************************)
IssueCalls == {<<"get_issues_for_version">>, <<"get_issues_for_version", "display_issues">>}
VersionCalls == {<<"get_project_versions">>, <<"get_project_versions", "display_versions">>}

C2_ExitCodesAsStated ==
    Finished =>
        /\ exit_code \in {<<0>>, <<1>>}
        /\ exit_code = <<0>> <=> (FetchSucceeded /\ Rendered)

\* C2 amended: a run whose command line the parser accepts ends with exit
\* code 0 or 1, 0 exactly when the fetch succeeded and the result was
\* rendered, 1 on every error of the fetch; a run the parser ends exits
\* with 2 on a usage error and 0 after --help, without any fetch.
C2_ExitCodes ==
    Finished =>
        IF ParserEndedRun
        THEN /\ exit_code = IF err = "usage" THEN <<2>> ELSE <<0>>
             /\ requests_made = 0 /\ calls = <<>>
        ELSE /\ exit_code \in {<<0>>, <<1>>}
             /\ exit_code = <<0>> <=> (FetchSucceeded /\ Rendered)
             /\ raised # "none" => exit_code = <<1>>

C2_Witness == Finished /\ ~ParserEndedRun /\ raised = "SSLError" /\ exit_code = <<1>>

(***************************************************************************)
(* C3.  HTTP status classification.                                        *)
(***************************************************************************)
ExpectedStatusTexts(status) ==
    IF status = 401 THEN <<"HTTP Error: {e}", "Authentication failed. Please check your username and API token.">>
    ELSE IF status = 403 THEN <<"HTTP Error: {e}", "You don't have permission to access this resource.">>
    ELSE IF status = 404 /\ VersionsPath THEN <<"HTTP Error: {e}", "Project '{project_key}' not found.">>
    ELSE IF status = 400 /\ IssuesPath THEN <<"HTTP Error: {e}", "Bad request: Invalid JQL query or parameters.">>
    ELSE <<"HTTP Error: {e}">>

\* C3 as stated: every answer whose status is outside 2xx makes the fetch
\* fail: no result is returned and the run exits 1 with the messages of
\* the status.
C3_StatusAsStated ==
    (response.kind = "response" /\ ~(200 <= response.status /\ response.status <= 299)) =>
        /\ result = <<>>
        /\ Finished /\ exit_code = <<1>>

\* C3 amended: every answer whose status is 4xx or 5xx makes the fetch
\* fail: no result is returned, the run exits 1, and the output is the
\* HTTP error line followed by the bad-credentials message for 401, the
\* insufficient-permission message for 403, the message naming the project
\* key for 404 on the versions endpoint only, the invalid-query message for
\* 400 on the issues endpoint only, and nothing more for any other status.
C3_Status ==
    (response.kind = "response" /\ 400 <= response.status /\ response.status <= 599) =>
        /\ result = <<>>
        /\ Finished /\ exit_code = <<1>>
        /\ Texts(out) = ExpectedStatusTexts(response.status)
        /\ (response.status = 404 /\ VersionsPath) => out[2].arg = <<args.project_key>>

C3_Witness == Finished /\ response.status = 404 /\ VersionsPath /\ Len(out) = 2

(***************************************************************************)
(* C4.  One request per run.                                               *)
(***************************************************************************)
FetchCalls == SelectSeq(calls, LAMBDA c : c \in {"get_project_versions", "get_issues_for_version"})

Dated(v) == v.releaseDate.tag = "str" /\ v.releaseDate.v # <<>>
VersionRows == RowsOf(out, "version_row")
TextVersionsRendered ==
    /\ Finished /\ calls = <<"get_project_versions", "display_versions">>
    /\ TextRun /\ result[1].v # <<>>

\* C5: in text format the rows are in ascending releaseDate order, every
\* entry without a date (missing, empty or null) comes after all dated
\* entries, entries of equal date or both undated keep their input order,
\* no entry is printed twice, every entry is printed when the renderer
\* completes, and the fetched list keeps its order.
C5_RowsInOrder ==
    TextVersionsRendered =>
        LET versions == result[1].v
            rows == VersionRows
            src(i) == rows[i].arg.src
        IN  /\ \A i \in 1..Len(rows) : src(i) \in 1..Len(versions)
            /\ \A i, j \in 1..Len(rows) : i < j =>
                  LET a == versions[src(i)]
                      b == versions[src(j)]
                  IN  /\ src(i) # src(j)
                      /\ Dated(b) => Dated(a)
                      /\ (Dated(a) /\ Dated(b)) => ~StrLess(b.releaseDate.v, a.releaseDate.v)
                      /\ (Dated(a) /\ Dated(b) /\ a.releaseDate = b.releaseDate) => src(i) < src(j)
                      /\ (~Dated(a) /\ ~Dated(b)) => src(i) < src(j)
            /\ err = "none" => Len(rows) = Len(versions)
            /\ Len(rows) < Len(versions) =>
                  \* the rows printed are those before the first that raises
                  \A k \in 1..Len(versions) :
                      (\A i \in 1..Len(rows) : src(i) # k) =>
                          \/ ~Dated(versions[k])
                          \/ \A i \in 1..Len(rows) :
                                /\ Dated(versions[src(i)])
                                /\ ~StrLess(versions[k].releaseDate.v, versions[src(i)].releaseDate.v)

C6_RenderNeverRaises ==
    (Finished /\ Len(calls) = 2 /\ TextRun /\ result[1].v # <<>>) =>
        /\ err = "none"
        /\ exit_code = <<0>>
        /\ Len(out) = 4 + Len(result[1].v)

(***************************************************************************)
(* C7.  Truncation of the summary.                                         *)
(***************************************************************************)
IssueRows == RowsOf(out, "issue_row")
InputSummary(issue) ==
    IF issue.fields.tag = "dict" /\ issue.fields.v.summary.tag = "str"
    THEN issue.fields.v.summary.v
    ELSE <<78, 47, 65>>
TextIssuesRendered ==
    /\ Finished /\ calls = <<"get_issues_for_version", "display_issues">>
    /\ TextRun /\ result[1].v # <<>>

\* C7: a summary longer than 70 characters is rendered as its first 67
\* characters followed by "...", 70 characters in all; a summary of at most
\* 70 characters is rendered unchanged; no rendered summary is longer than
\* 70 characters.
C7_Truncation ==
    TextIssuesRendered =>
        \A i \in 1..Len(IssueRows) :
            LET s == InputSummary(result[1].v[i])
                r == IssueRows[i].arg.summary
            IN  /\ Len(r) <= 70
                /\ Len(s) <= 70 => r = s
                /\ Len(s) > 70 =>
                      /\ Len(r) = 70
                      /\ SubSeq(r, 1, 67) = SubSeq(s, 1, 67)
                      /\ SubSeq(r, 68, 70) = <<46, 46, 46>>

C7_Witness ==
    /\ TextIssuesRendered /\ Len(IssueRows) = 2
    /\ Len(InputSummary(result[1].v[1])) = 71
    /\ Len(InputSummary(result[1].v[2])) = 70

(***************************************************************************)
(* C8.  Empty results.                                                     *)
(***************************************************************************)
\* C8: in text format an empty list is rendered as exactly one line, the
\* no-releases notice of display_versions or the no-issues notice of
\* display_issues, and the run ends with exit code 0.
C8_EmptyResult ==
    (Finished /\ Len(calls) = 2 /\ TextRun /\ result[1].v = <<>>) =>
        /\ Len(out) = 1
        /\ out[1].text = IF VersionsPath THEN "No releases found for this project."
                         ELSE "No issues found for this release."
        /\ exit_code = <<0>>

C8_Witness ==
    /\ Finished /\ calls = <<"get_issues_for_version", "display_issues">>
    /\ TextRun /\ result[1].v = <<>> /\ Len(out) = 1

(***************************************************************************)
(* C9.  Transport failures.                                                *)
(***************************************************************************)
\* C9: a request that times out, while connecting or while reading, prints
\* the timeout message; a connection failure prints the connection-failed
\* message; any other transport exception prints the generic message; one
\* diagnostic is printed and the run exits 1.
C9_TransportClassification ==
    (Finished /\ response.kind = "exception") =>
        /\ exit_code = <<1>>
        /\ Len(out) = 1
        /\ out[1].text =
              IF raised \in {"ConnectTimeout", "ReadTimeout"} THEN "Timeout Error: The request timed out."
              ELSE IF raised \in {"ConnectionError", "SSLError"}
                   THEN "Connection Error: Failed to connect to the Jira server."
              ELSE "Error: {e}"

(***************************************************************************)
(* C10.  Errors are terminal.                                              *)
(***************************************************************************)
\* C10: once a fetch has ended with an error the run is over: the
\* diagnostic is printed (the traceback when no clause handles the error),
\* the exit code is 1, no renderer has been or will be called, nothing was
\* returned to render and no second request is made.
C10_ErrorsTerminal ==
    raised # "none" =>
        /\ Finished /\ exit_code = <<1>>
        /\ Len(calls) = 1 /\ calls[1] \in {"get_project_versions", "get_issues_for_version"}
        /\ result = <<>>
        /\ requests_made = 1
        /\ out # <<>> \/ err = "traceback"
        /\ \A i \in 1..Len(out) : out[i].text \notin {"json", "version_row", "issue_row",
              "No releases found for this project.", "No issues found for this release."}

C10_Witness == raised = "HTTPError" /\ response.status = 503 /\ Finished /\ Len(out) = 1

====
